---------------------------- MODULE Spec2Model ----------------------------
(***************************************************************************)
(* Model of src/lune/builtins/serde/crypto.rs: the Crypto hashing session  *)
(* (an Arc<Mutex<CryptoAlgo>> shared by every clone of a handle), its      *)
(* update and digest operations, the EncodingKind selector parsing of the  *)
(* Lua binding, and the rendering of a raw digest as UTF-8, Base64 or Hex. *)
(*                                                                         *)
(* Bytes are the integers 0..255, byte strings and text are sequences of   *)
(* them.  The internal state of a hasher is represented by the message it  *)
(* has absorbed since it was created or last reset: a digest is a function *)
(* of the algorithm and of that message.                                   *)
(***************************************************************************)
EXTENDS Integers, Sequences, FiniteSets, TLC

\* Largest number of message bytes issued to one session between two digests.
MaxMsgLen == 2

\* Largest magnitude of an integer selector tried by the selector parser.
MaxOrdinal == 9

---------------------------------------------------------------------------
(* Byte strings and text *)

\* The bytes of the chunks fed to update: "a" and "b".
MsgAlphabet == {97, 98}

\* The chunks a caller passes to update or to a constructor.
Chunks == {<<97>>, <<98>>, <<97, 98>>}

\* The chunks the concurrent callers pass to update.
ThreadChunks == {<<97>>, <<98>>}

\* The names of the three encodings as text: "utf8", "base64", "hex".
StrUtf8 == <<117, 116, 102, 56>>
StrBase64 == <<98, 97, 115, 101, 54, 52>>
StrHex == <<104, 101, 120>>

RECURSIVE Flatten(_)
\* The concatenation of a sequence of byte strings.
Flatten(ss) == IF ss = <<>> THEN <<>> ELSE Head(ss) \o Flatten(Tail(ss))

\* char::to_lowercase on one ASCII code: 'A'..'Z' map to 'a'..'z'.
LowerChar(c) == IF c >= 65 /\ c <= 90 THEN c + 32 ELSE c

\* str::to_lowercase of a text of ASCII characters.
to_lowercase(s) == [i \in 1..Len(s) |-> LowerChar(s[i])]

---------------------------------------------------------------------------
(* The hash algorithms *)

\* The variants of enum CryptoAlgo.
CryptoAlgoVariants == {"Sha1", "Sha256", "Sha512"}

\* sha1::Sha1 (FIPS 180-4 SHA-1), 20-byte output: the digest of each message over
\* MsgAlphabet of length <= 3, as the hasher crate computes it.
Sha1Digest(msg) ==
  CASE msg = <<>> ->
         <<218, 57, 163, 238, 94, 107, 75, 13, 50, 85, 191, 239, 149, 96, 24, 144, 175, 216,
         7, 9>>
    [] msg = <<97>> ->
         <<134, 247, 228, 55, 250, 165, 167, 252, 225, 93, 29, 220, 185, 234, 234, 234, 55,
         118, 103, 184>>
    [] msg = <<98>> ->
         <<233, 215, 31, 94, 231, 201, 45, 109, 201, 233, 47, 253, 173, 23, 184, 189, 73, 65,
         143, 152>>
    [] msg = <<97, 97>> ->
         <<224, 201, 3, 88, 152, 221, 82, 252, 101, 196, 20, 84, 206, 201, 196, 210, 97, 27,
         251, 55>>
    [] msg = <<97, 98>> ->
         <<218, 35, 97, 78, 2, 70, 154, 13, 124, 123, 209, 189, 171, 92, 156, 71, 75, 25, 4,
         220>>
    [] msg = <<98, 97>> ->
         <<108, 5, 150, 184, 172, 96, 145, 145, 24, 26, 144, 81, 125, 81, 192, 180, 134, 242,
         55, 153>>
    [] msg = <<98, 98>> ->
         <<154, 144, 15, 83, 137, 101, 164, 38, 153, 78, 30, 144, 96, 9, 32, 175, 240, 180,
         232, 210>>
    [] msg = <<97, 97, 97>> ->
         <<126, 36, 13, 231, 79, 177, 237, 8, 250, 8, 211, 128, 99, 246, 166, 169, 20, 98,
         168, 21>>
    [] msg = <<97, 97, 98>> ->
         <<64, 185, 4, 253, 136, 82, 41, 125, 174, 174, 180, 38, 177, 188, 164, 111, 210, 69,
         74, 163>>
    [] msg = <<97, 98, 97>> ->
         <<77, 94, 204, 249, 55, 57, 198, 48, 90, 175, 137, 105, 166, 130, 204, 87, 225, 253,
         115, 149>>
    [] msg = <<97, 98, 98>> ->
         <<198, 77, 63, 205, 226, 12, 92, 208, 49, 66, 23, 30, 90, 196, 122, 135, 170, 60,
         138, 206>>
    [] msg = <<98, 97, 97>> ->
         <<76, 158, 52, 239, 66, 35, 151, 146, 92, 60, 54, 151, 62, 95, 227, 95, 11, 171,
         143, 173>>
    [] msg = <<98, 97, 98>> ->
         <<135, 124, 135, 204, 156, 37, 24, 248, 247, 73, 100, 169, 69, 77, 115, 248, 187,
         134, 255, 214>>
    [] msg = <<98, 98, 97>> ->
         <<255, 141, 56, 176, 65, 227, 137, 53, 48, 124, 38, 28, 221, 41, 35, 233, 185, 229,
         220, 0>>
    [] msg = <<98, 98, 98>> ->
         <<92, 177, 56, 40, 77, 67, 26, 189, 106, 5, 58, 86, 98, 94, 192, 136, 191, 184, 137,
         18>>

\* sha2::Sha256 (FIPS 180-4 SHA-256), 32-byte output: the digest of each message over
\* MsgAlphabet of length <= 3, as the hasher crate computes it.
Sha256Digest(msg) ==
  CASE msg = <<>> ->
         <<227, 176, 196, 66, 152, 252, 28, 20, 154, 251, 244, 200, 153, 111, 185, 36, 39,
         174, 65, 228, 100, 155, 147, 76, 164, 149, 153, 27, 120, 82, 184, 85>>
    [] msg = <<97>> ->
         <<202, 151, 129, 18, 202, 27, 189, 202, 250, 194, 49, 179, 154, 35, 220, 77, 167,
         134, 239, 248, 20, 124, 78, 114, 185, 128, 119, 133, 175, 238, 72, 187>>
    [] msg = <<98>> ->
         <<62, 35, 232, 22, 0, 57, 89, 74, 51, 137, 79, 101, 100, 225, 177, 52, 139, 189,
         122, 0, 136, 212, 44, 74, 203, 115, 238, 174, 213, 156, 0, 157>>
    [] msg = <<97, 97>> ->
         <<150, 27, 109, 211, 237, 227, 203, 142, 203, 170, 203, 214, 141, 224, 64, 205, 120,
         235, 46, 213, 136, 145, 48, 204, 235, 76, 73, 38, 142, 164, 213, 6>>
    [] msg = <<97, 98>> ->
         <<251, 142, 32, 252, 46, 76, 63, 36, 140, 96, 195, 155, 214, 82, 243, 193, 52, 114,
         152, 187, 151, 123, 139, 77, 89, 3, 184, 80, 85, 98, 6, 3>>
    [] msg = <<98, 97>> ->
         <<151, 15, 81, 156, 44, 173, 188, 239, 177, 232, 22, 148, 249, 4, 188, 98, 41, 221,
         42, 131, 0, 233, 140, 109, 13, 79, 196, 191, 202, 88, 65, 64>>
    [] msg = <<98, 98>> ->
         <<59, 100, 219, 149, 203, 85, 199, 99, 57, 28, 112, 113, 8, 72, 154, 225, 139, 65,
         18, 215, 131, 48, 13, 227, 142, 3, 59, 76, 152, 195, 222, 175>>
    [] msg = <<97, 97, 97>> ->
         <<152, 52, 135, 109, 207, 176, 92, 177, 103, 165, 194, 73, 83, 235, 165, 140, 74,
         200, 155, 26, 223, 87, 242, 143, 47, 157, 9, 175, 16, 126, 232, 240>>
    [] msg = <<97, 97, 98>> ->
         <<56, 118, 14, 171, 182, 102, 232, 230, 30, 230, 40, 161, 124, 64, 144, 204, 80,
         114, 142, 9, 95, 242, 66, 24, 17, 157, 81, 189, 34, 71, 83, 99>>
    [] msg = <<97, 98, 97>> ->
         <<225, 36, 173, 204, 225, 251, 47, 136, 225, 234, 121, 156, 61, 8, 32, 132, 94, 211,
         67, 230, 199, 57, 229, 65, 49, 252, 179, 165, 110, 75, 193, 189>>
    [] msg = <<97, 98, 98>> ->
         <<113, 94, 223, 139, 168, 114, 148, 32, 205, 77, 28, 232, 94, 214, 25, 84, 169, 245,
         49, 248, 197, 72, 223, 114, 140, 64, 126, 255, 232, 57, 41, 109>>
    [] msg = <<98, 97, 97>> ->
         <<102, 94, 218, 230, 213, 38, 102, 209, 62, 53, 115, 204, 66, 246, 121, 156, 164,
         21, 184, 115, 18, 195, 189, 15, 163, 126, 164, 78, 13, 225, 254, 100>>
    [] msg = <<98, 97, 98>> ->
         <<236, 221, 151, 64, 92, 121, 180, 8, 238, 119, 145, 2, 157, 5, 210, 181, 120, 147,
         217, 176, 106, 18, 130, 83, 30, 13, 247, 41, 218, 239, 206, 245>>
    [] msg = <<98, 98, 97>> ->
         <<50, 78, 141, 87, 22, 175, 228, 119, 81, 24, 254, 18, 37, 111, 211, 212, 136, 204,
         229, 117, 227, 117, 206, 111, 142, 177, 108, 180, 181, 187, 181, 211>>
    [] msg = <<98, 98, 98>> ->
         <<62, 116, 75, 157, 195, 147, 137, 186, 240, 197, 160, 102, 5, 137, 184, 64, 47, 61,
         187, 73, 184, 155, 62, 117, 242, 201, 53, 88, 82, 163, 198, 119>>

\* sha2::Sha512 (FIPS 180-4 SHA-512), 64-byte output: the digest of each message over
\* MsgAlphabet of length <= 3, as the hasher crate computes it.
Sha512Digest(msg) ==
  CASE msg = <<>> ->
         <<207, 131, 225, 53, 126, 239, 184, 189, 241, 84, 40, 80, 214, 109, 128, 7, 214, 32,
         228, 5, 11, 87, 21, 220, 131, 244, 169, 33, 211, 108, 233, 206, 71, 208, 209, 60,
         93, 133, 242, 176, 255, 131, 24, 210, 135, 126, 236, 47, 99, 185, 49, 189, 71, 65,
         122, 129, 165, 56, 50, 122, 249, 39, 218, 62>>
    [] msg = <<97>> ->
         <<31, 64, 252, 146, 218, 36, 22, 148, 117, 9, 121, 238, 108, 245, 130, 242, 213,
         215, 210, 142, 24, 51, 93, 224, 90, 188, 84, 208, 86, 14, 15, 83, 2, 134, 12, 101,
         43, 240, 141, 86, 2, 82, 170, 94, 116, 33, 5, 70, 243, 105, 251, 187, 206, 140, 18,
         207, 199, 149, 123, 38, 82, 254, 154, 117>>
    [] msg = <<98>> ->
         <<82, 103, 118, 136, 34, 238, 98, 77, 72, 252, 225, 94, 197, 202, 121, 203, 214, 2,
         203, 127, 76, 33, 87, 165, 22, 85, 105, 145, 242, 46, 248, 199, 181, 239, 123, 24,
         209, 255, 65, 197, 147, 112, 239, 176, 133, 134, 81, 212, 74, 147, 108, 17, 183,
         177, 68, 196, 143, 224, 77, 243, 198, 163, 232, 218>>
    [] msg = <<97, 97>> ->
         <<246, 197, 96, 14, 209, 219, 220, 253, 248, 41, 8, 31, 84, 23, 220, 203, 189, 43,
         146, 136, 224, 180, 39, 230, 92, 140, 246, 126, 39, 75, 105, 0, 156, 209, 66, 71,
         94, 21, 48, 79, 89, 159, 66, 159, 38, 10, 102, 27, 93, 244, 222, 38, 116, 100, 89,
         163, 206, 247, 243, 32, 6, 229, 209, 193>>
    [] msg = <<97, 98>> ->
         <<45, 64, 138, 7, 23, 236, 24, 129, 88, 39, 138, 121, 108, 104, 144, 68, 54, 29,
         198, 253, 222, 40, 214, 240, 73, 115, 184, 8, 150, 225, 130, 57, 117, 205, 191, 18,
         235, 99, 249, 224, 89, 19, 40, 238, 35, 93, 128, 233, 181, 191, 26, 166, 164, 79,
         70, 23, 255, 60, 175, 100, 0, 235, 23, 45>>
    [] msg = <<98, 97>> ->
         <<32, 94, 177, 108, 245, 101, 189, 178, 188, 211, 82, 142, 35, 127, 114, 236, 2, 17,
         198, 160, 93, 62, 162, 41, 17, 55, 139, 255, 117, 41, 163, 234, 88, 46, 155, 182,
         23, 83, 154, 220, 56, 220, 253, 200, 45, 122, 97, 104, 251, 237, 80, 181, 227, 215,
         15, 220, 163, 239, 130, 51, 210, 124, 218, 193>>
    [] msg = <<98, 98>> ->
         <<36, 177, 168, 18, 212, 227, 83, 92, 6, 1, 28, 67, 10, 171, 163, 245, 157, 50, 243,
         98, 99, 221, 203, 153, 84, 31, 153, 130, 102, 197, 232, 74, 82, 251, 51, 249, 81,
         206, 199, 134, 86, 245, 152, 160, 4, 248, 60, 119, 19, 136, 185, 168, 4, 4, 247, 67,
         43, 113, 79, 77, 202, 228, 160, 15>>
    [] msg = <<97, 97, 97>> ->
         <<214, 246, 68, 177, 152, 18, 233, 123, 93, 135, 22, 88, 214, 211, 64, 14, 205, 71,
         135, 250, 235, 155, 137, 144, 193, 231, 96, 130, 136, 102, 75, 231, 114, 87, 16, 74,
         88, 208, 51, 188, 241, 160, 224, 148, 95, 240, 100, 104, 235, 229, 62, 45, 255, 54,
         226, 72, 66, 76, 114, 115, 17, 125, 172, 9>>
    [] msg = <<97, 97, 98>> ->
         <<132, 56, 122, 86, 12, 116, 205, 23, 163, 225, 214, 24, 24, 27, 215, 115, 76, 172,
         219, 29, 123, 90, 82, 237, 242, 15, 187, 39, 196, 254, 254, 37, 189, 79, 131, 156,
         18, 232, 66, 198, 28, 205, 87, 48, 143, 214, 166, 179, 152, 125, 194, 55, 172, 205,
         33, 59, 152, 24, 215, 81, 195, 153, 12, 16>>
    [] msg = <<97, 98, 97>> ->
         <<111, 136, 101, 182, 240, 122, 230, 220, 113, 145, 203, 44, 55, 117, 61, 238, 203,
         34, 110, 218, 200, 59, 233, 78, 208, 60, 47, 161, 205, 103, 102, 250, 109, 58, 74,
         241, 43, 71, 221, 236, 114, 49, 160, 54, 53, 251, 143, 185, 182, 5, 180, 136, 43,
         147, 234, 68, 211, 154, 136, 111, 136, 114, 205, 60>>
    [] msg = <<97, 98, 98>> ->
         <<25, 142, 196, 133, 59, 79, 161, 26, 38, 165, 92, 157, 106, 193, 208, 110, 106,
         249, 64, 23, 114, 144, 108, 67, 19, 160, 211, 155, 49, 137, 26, 208, 120, 96, 55,
         157, 105, 156, 40, 243, 132, 14, 194, 107, 31, 62, 28, 227, 52, 72, 224, 149, 73,
         107, 98, 153, 255, 232, 252, 9, 13, 113, 255, 246>>
    [] msg = <<98, 97, 97>> ->
         <<131, 49, 21, 128, 214, 239, 223, 54, 112, 112, 93, 192, 61, 92, 225, 110, 212,
         215, 17, 137, 181, 254, 188, 90, 122, 237, 24, 246, 91, 144, 121, 192, 202, 34, 221,
         69, 236, 153, 138, 124, 119, 83, 171, 99, 205, 148, 251, 175, 154, 213, 161, 206,
         210, 209, 22, 130, 200, 64, 93, 46, 122, 59, 41, 54>>
    [] msg = <<98, 97, 98>> ->
         <<125, 71, 119, 49, 131, 242, 130, 194, 171, 8, 31, 180, 79, 3, 33, 249, 92, 22,
         119, 99, 215, 137, 223, 43, 82, 106, 214, 203, 155, 113, 109, 117, 113, 76, 59, 10,
         122, 76, 142, 40, 134, 177, 6, 77, 141, 0, 142, 213, 129, 203, 82, 25, 51, 90, 227,
         146, 254, 146, 10, 110, 156, 8, 36, 228>>
    [] msg = <<98, 98, 97>> ->
         <<59, 78, 200, 3, 50, 120, 30, 189, 171, 205, 10, 204, 79, 190, 111, 236, 105, 221,
         48, 76, 208, 194, 27, 95, 12, 32, 69, 2, 91, 63, 137, 112, 35, 221, 25, 18, 57, 163,
         107, 198, 11, 52, 98, 226, 133, 128, 52, 32, 88, 99, 51, 7, 197, 175, 227, 60, 237,
         253, 59, 7, 76, 89, 1, 230>>
    [] msg = <<98, 98, 98>> ->
         <<94, 220, 28, 106, 67, 144, 7, 90, 60, 162, 127, 77, 65, 97, 196, 107, 55, 75, 28,
         59, 45, 99, 248, 70, 219, 111, 255, 12, 81, 50, 3, 195, 172, 59, 20, 162, 74, 111,
         9, 216, 191, 33, 64, 122, 72, 66, 17, 59, 93, 154, 163, 89, 210, 102, 41, 156, 61,
         108, 249, 233, 45, 182, 109, 190>>
\* The raw digest a hasher of the given variant produces for a message.
Hash(tag, msg) ==
  CASE tag = "Sha1" -> Sha1Digest(msg)
    [] tag = "Sha256" -> Sha256Digest(msg)
    [] tag = "Sha512" -> Sha512Digest(msg)

\* A freshly created hasher: Sha1::new(), Sha256::new(), Sha512::new().
NewHasher(tag) == [tag |-> tag, msg |-> <<>>]

\* get_hasher with the Sha512 arm returning a SHA-256 hasher.
get_hasherWrongArm(algoState) ==
  [algoState EXCEPT !.tag = IF @ = "Sha512" THEN "Sha256" ELSE @]

\* CryptoAlgo::get_hasher: the hasher the variant owns, by reference.
get_hasher(algoState) == algoState

\* DynDigest::box_clone: an independent copy of the hasher's state.
box_clone(hasher) == hasher

\* DynDigest::update: the hasher absorbs the bytes after what it holds.
HasherUpdate(hasher, bytes) == [hasher EXCEPT !.msg = @ \o bytes]

\* DynDigest::finalize_reset: the digest of what was absorbed, and the
\* hasher back in its initial state.
finalize_reset(hasher) ==
  [out |-> Hash(hasher.tag, hasher.msg), hasher |-> NewHasher(hasher.tag)]

---------------------------------------------------------------------------
(* Rendering a raw digest *)

EncodingKinds == {"Utf8", "Base64", "Hex"}

RECURSIVE Utf8ValidFrom(_, _)
\* core::str::from_utf8's validation of bytes[i..]: well-formed UTF-8 only
\* (no overlong forms, no surrogates, nothing above U+10FFFF).
Utf8ValidFrom(bytes, i) ==
  LET n == Len(bytes)
      Cont(k) == k <= n /\ bytes[k] >= 128 /\ bytes[k] <= 191
      In(k, lo, hi) == k <= n /\ bytes[k] >= lo /\ bytes[k] <= hi
      b == bytes[i]
  IN IF i > n THEN TRUE
     ELSE IF b <= 127 THEN Utf8ValidFrom(bytes, i + 1)
     ELSE IF b >= 194 /\ b <= 223 THEN Cont(i + 1) /\ Utf8ValidFrom(bytes, i + 2)
     ELSE IF b = 224 THEN
       In(i + 1, 160, 191) /\ Cont(i + 2) /\ Utf8ValidFrom(bytes, i + 3)
     ELSE IF (b >= 225 /\ b <= 236) \/ b = 238 \/ b = 239 THEN
       Cont(i + 1) /\ Cont(i + 2) /\ Utf8ValidFrom(bytes, i + 3)
     ELSE IF b = 237 THEN
       In(i + 1, 128, 159) /\ Cont(i + 2) /\ Utf8ValidFrom(bytes, i + 3)
     ELSE IF b = 240 THEN
       In(i + 1, 144, 191) /\ Cont(i + 2) /\ Cont(i + 3)
         /\ Utf8ValidFrom(bytes, i + 4)
     ELSE IF b >= 241 /\ b <= 243 THEN
       Cont(i + 1) /\ Cont(i + 2) /\ Cont(i + 3) /\ Utf8ValidFrom(bytes, i + 4)
     ELSE IF b = 244 THEN
       In(i + 1, 128, 143) /\ Cont(i + 2) /\ Cont(i + 3)
         /\ Utf8ValidFrom(bytes, i + 4)
     ELSE FALSE

\* A slip in the Utf8 arm: the bytes are taken as text without validation.
from_utf8_unchecked(bytes) == [kind |-> "Ok", text |-> bytes]

\* String::from_utf8(bytes).map_err(anyhow::Error::from): the bytes as text
\* when they are valid UTF-8, an error value otherwise.
from_utf8(bytes) ==
  IF Utf8ValidFrom(bytes, 1)
  THEN [kind |-> "Ok", text |-> bytes]
  ELSE [kind |-> "Err", text |-> <<>>]

\* One hexadecimal digit in upper case, as hex::encode_upper writes it.
HexCharUpper(n) == IF n < 10 THEN 48 + n ELSE 55 + n

\* One lowercase hexadecimal digit, as its character code.
HexChar(n) == IF n < 10 THEN 48 + n ELSE 87 + n

\* hex::encode: two lowercase hexadecimal digits for each byte.
hex_encode(bytes) ==
  [i \in 1..(2 * Len(bytes)) |->
     IF i % 2 = 1 THEN HexChar(bytes[(i + 1) \div 2] \div 16)
     ELSE HexChar(bytes[i \div 2] % 16)]

\* One character of the standard base64 alphabet A-Z a-z 0-9 + /.
B64Char(n) ==
  IF n < 26 THEN 65 + n
  ELSE IF n < 52 THEN 71 + n
  ELSE IF n < 62 THEN n - 4
  ELSE IF n = 62 THEN 43
  ELSE 47

\* The k-th character (k in 0..3) of the base64 group that starts at
\* byte i: six bits of the group each, '=' where the group has no byte left.
B64At(bytes, i, k) ==
  LET n == Len(bytes)
      b1 == bytes[i]
      b2 == IF i + 1 <= n THEN bytes[i + 1] ELSE 0
      b3 == IF i + 2 <= n THEN bytes[i + 2] ELSE 0
  IN CASE k = 0 -> B64Char(b1 \div 4)
       [] k = 1 -> B64Char((b1 % 4) * 16 + (b2 \div 16))
       [] k = 2 -> IF i + 1 <= n THEN B64Char((b2 % 16) * 4 + (b3 \div 64)) ELSE 61
       [] k = 3 -> IF i + 2 <= n THEN B64Char(b3 % 64) ELSE 61

\* Base64::STANDARD.encode: four characters for each three bytes, the last
\* group padded with '='.
base64_encode(bytes) ==
  [j \in 1..(4 * ((Len(bytes) + 2) \div 3)) |->
     B64At(bytes, 3 * ((j - 1) \div 4) + 1, (j - 1) % 4)]

\* The match on the encoding at the end of Crypto::digest.
Render(encoding, computed) ==
  CASE encoding = "Utf8" -> from_utf8(computed)
    [] encoding = "Base64" -> [kind |-> "Ok", text |-> base64_encode(computed)]
    [] encoding = "Hex" -> [kind |-> "Ok", text |-> hex_encode(computed)]

---------------------------------------------------------------------------
(* Parsing an encoding selector *)

\* The Lua values a caller can pass as the encoding argument.
LuaInteger(i) == [type |-> "Integer", n |-> i, fp |-> "int", s |-> <<>>]
\* A finite float is given in halves: LuaNumber(h) is the number h / 2.
LuaNumber(h) == [type |-> "Number", n |-> h, fp |-> "finite", s |-> <<>>]
LuaNumberNaN == [type |-> "Number", n |-> 0, fp |-> "nan", s |-> <<>>]
LuaNumberInf == [type |-> "Number", n |-> 0, fp |-> "inf", s |-> <<>>]
LuaNumberNegInf == [type |-> "Number", n |-> 0, fp |-> "neginf", s |-> <<>>]
LuaString(s) == [type |-> "String", n |-> 0, fp |-> "none", s |-> s]
LuaNil == [type |-> "Nil", n |-> 0, fp |-> "none", s |-> <<>>]
LuaBoolean == [type |-> "Boolean", n |-> 1, fp |-> "none", s |-> <<>>]

\* A usize is a 64-bit unsigned integer, kept as four 16-bit limbs, the
\* least significant first.
UsizeOf(i) ==
  LET q1 == i \div 65536
      q2 == q1 \div 65536
      q3 == q2 \div 65536
  IN <<i % 65536, q1 % 65536, q2 % 65536, q3 % 65536>>

UsizeMax == <<65535, 65535, 65535, 65535>>

\* `int as usize`: the two's complement bits of the integer, reinterpreted.
IntAsUsize(i) == UsizeOf(i)

\* `num as usize`: truncation toward zero, saturating at 0 and at
\* usize::MAX, NaN giving 0.
NumAsUsize(v) ==
  CASE v.fp = "nan" -> UsizeOf(0)
    [] v.fp = "neginf" -> UsizeOf(0)
    [] v.fp = "inf" -> UsizeMax
    [] OTHER -> IF v.n < 0 THEN UsizeOf(0) ELSE UsizeOf(v.n \div 2)

ParseOk(enc) == [kind |-> "Ok", enc |-> enc]
ParsePanic == [kind |-> "Panic", enc |-> "none"]
ParseErr == [kind |-> "Err", enc |-> "none"]

\* impl From<usize> for EncodingKind.
from_usize(value) ==
  CASE value = UsizeOf(0) -> ParseOk("Utf8")
    [] value = UsizeOf(1) -> ParseOk("Base64")
    [] value = UsizeOf(2) -> ParseOk("Hex")
    [] OTHER -> ParsePanic

\* From<String> that compares the text as written, without to_lowercase.
from_stringCaseSensitive(value) ==
  CASE value = StrUtf8 -> ParseOk("Utf8")
    [] value = StrBase64 -> ParseOk("Base64")
    [] value = StrHex -> ParseOk("Hex")
    [] OTHER -> ParsePanic

\* impl From<String> for EncodingKind.
from_string(value) ==
  LET lower == to_lowercase(value)
  IN CASE lower = StrUtf8 -> ParseOk("Utf8")
       [] lower = StrBase64 -> ParseOk("Base64")
       [] lower = StrHex -> ParseOk("Hex")
       [] OTHER -> ParsePanic

\* impl FromLua for EncodingKind.
from_lua(value) ==
  CASE value.type = "Integer" -> from_usize(IntAsUsize(value.n))
    [] value.type = "Number" -> from_usize(NumAsUsize(value))
    [] value.type = "String" -> from_string(value.s)
    [] OTHER -> ParseErr

\* The texts tried as selector names: the three names in several cases,
\* "rot13", "hex " and the empty text.
SelectorNames ==
  { StrUtf8, <<85, 84, 70, 56>>, <<85, 116, 102, 56>>,
    StrBase64, <<66, 97, 115, 101, 54, 52>>, <<66, 65, 83, 69, 54, 52>>,
    StrHex, <<72, 69, 88>>, <<72, 101, 120>>,
    <<114, 111, 116, 49, 51>>, <<104, 101, 120, 32>>, <<117, 116, 102>>,
    <<>> }

\* The selectors tried by the parser.
Selectors ==
  {LuaInteger(i) : i \in (0 - MaxOrdinal)..MaxOrdinal}
    \cup {LuaInteger(2147483647), LuaInteger(0 - 2147483647),
          LuaInteger(65536), LuaInteger(0 - 65536)}
    \cup {LuaNumber(h) : h \in (0 - MaxOrdinal)..MaxOrdinal}
    \cup {LuaNumberNaN, LuaNumberInf, LuaNumberNegInf}
    \cup {LuaString(s) : s \in SelectorNames}
    \cup {LuaNil, LuaBoolean}

\* The selectors the callers of the concurrent sessions pass to digest.
SessionSelectors ==
  {LuaInteger(0), LuaString(<<72, 69, 88>>), LuaInteger(7), LuaNil}

\* The raw digests handed to the rendering: short byte strings on both
\* sides of the UTF-8 rules, and the digests of the three algorithms for
\* the messages of at most one byte.
RawInputs ==
  {Hash(tag, m) : tag \in CryptoAlgoVariants, m \in {<<>>, <<97>>, <<98>>}}
    \cup {<<>>, <<97>>, <<127>>, <<128>>, <<194, 162>>, <<192, 128>>, <<194>>,
          <<224, 160, 128>>, <<224, 159, 128>>, <<237, 159, 191>>,
          <<237, 160, 128>>, <<240, 144, 128, 128>>, <<240, 143, 128, 128>>,
          <<244, 143, 191, 191>>, <<244, 144, 128, 128>>, <<255>>,
          <<97, 194, 162, 98>>, <<0, 16, 131>>, <<251, 255>>}

---------------------------------------------------------------------------
(* The sessions *)

\* The identities of the shared states (one Arc<Mutex<CryptoAlgo>> each),
\* of the handles (Crypto values) and of the calling threads.
SessionIds == {1, 2}
HandleIds == {1, 2}
Threads == {"t1", "t2"}

NoSession == 0
NoThread == "none"
NoContent == <<-1>>

VARIABLES
  algo,        \* algo[s]: the CryptoAlgo inside the mutex of session s
  handles,     \* handles[h]: the session handle h points to, or NoSession
  lockHolder,  \* lockHolder[s]: the thread holding the mutex of s, or NoThread
  poisoned,    \* poisoned[s]: the mutex of s is poisoned
  pc,          \* pc[t]: where thread t is in its current call
  th,          \* th[t]: the arguments and locals of thread t's current call
  pending,     \* pending[s]: the updates that took the lock of s since the
               \*   last digest did (or since construction), in lock order:
               \*   the handle used and the chunk
  digested,    \* digested[s]: a digest has taken the lock of s
  seeded,      \* seeded[s]: s was constructed with initial content, and no
               \*   update or digest has taken its lock since
  lastDigest,  \* lastDigest[s]: what the latest call on s returned, when
               \*   that call was a digest
  lua          \* the last selector parsed and raw digest rendered, and the outcome

vars == <<algo, handles, lockHolder, poisoned, pc, th, pending, digested,
          seeded, lastDigest, lua>>

sessionVars == <<algo, handles, lockHolder, poisoned, pc, th, pending, digested,
                 seeded, lastDigest>>

NoLocals ==
  [h |-> 0, content |-> <<>>, enc |-> "none", binding |-> NewHasher("none"),
   computed |-> <<>>, chunks |-> <<>>, second |-> FALSE]

NoDigest ==
  [valid |-> FALSE, h |-> 0, chunks |-> <<>>, enc |-> "none",
   out |-> [kind |-> "none", text |-> <<>>], second |-> FALSE]

NoLua ==
  [sel |-> LuaNil, raw |-> <<>>, parsed |-> [kind |-> "none", enc |-> "none"],
   out |-> [kind |-> "none", text |-> <<>>]]

InitSessions ==
  /\ algo = [s \in SessionIds |-> NewHasher("none")]
  /\ handles = [h \in HandleIds |-> NoSession]
  /\ lockHolder = [s \in SessionIds |-> NoThread]
  /\ poisoned = [s \in SessionIds |-> FALSE]
  /\ pc = [t \in Threads |-> "idle"]
  /\ th = [t \in Threads |-> NoLocals]
  /\ pending = [s \in SessionIds |-> <<>>]
  /\ digested = [s \in SessionIds |-> FALSE]
  /\ seeded = [s \in SessionIds |-> FALSE]
  /\ lastDigest = [s \in SessionIds |-> NoDigest]

Init == InitSessions /\ lua = NoLua

\* The chunks of a pending list, and their total length.
ChunksOf(p) == [i \in 1..Len(p) |-> p[i].c]
PendingLen(s) == Len(Flatten(ChunksOf(pending[s])))

\* The update calls on session s that have not taken the lock yet.
InFlight(s) == {t \in Threads : pc[t] = "u_lock" /\ handles[th[t].h] = s}

RECURSIVE SumLen(_)
SumLen(ts) ==
  IF ts = {} THEN 0
  ELSE LET t == CHOOSE u \in ts : TRUE
       IN Len(th[t].content) + SumLen(ts \ {t})

\* One more update of `content` on session s stays within the bounds.
WithinBounds(s, content) ==
  PendingLen(s) + SumLen(InFlight(s)) + Len(content) <= MaxMsgLen

\* A slip in update: the stored hasher is overwritten by a hasher that holds
\* the new content alone.
StoredOverwritten(stored, binding, content) == [stored EXCEPT !.msg = content]

\* The stored CryptoAlgo after line 129 of Crypto::update: `binding`, which
\* absorbs `content`, is the box_clone taken at line 126, so the bytes do
\* not reach the hasher inside the mutex.
StoredAfterUpdate(stored, binding, content) == stored

\* A reset that stores a default hasher, SHA-1, in place of the session's.
StoredAfterDigestDefault(stored, clone) == NewHasher("Sha1")

\* The stored CryptoAlgo after line 138 of Crypto::digest: finalize_reset
\* acts on a box_clone, which is dropped; the stored hasher is not reset.
StoredAfterDigest(stored, clone) == stored

\* A slip in update: the call stores a hasher that holds the content alone.
updateOverwriting(stored, content) == [stored EXCEPT !.msg = content]

\* Crypto::update as a whole: the stored state it leaves.
update(stored, content) ==
  LET binding == box_clone(get_hasher(stored))
  IN StoredAfterUpdate(stored, HasherUpdate(binding, content), content)

\* Crypto::digest as a whole: the raw digest it computes and the stored
\* state it leaves.
digest(stored) ==
  LET fin == finalize_reset(box_clone(get_hasher(stored)))
  IN [computed |-> fin.out, stored |-> StoredAfterDigest(stored, fin.hasher)]

\* A slip in a constructor: the content is absorbed by the new hasher
\* before it is stored, without a call of update.
ConstructAbsorbing(tag, content) ==
  IF content = NoContent
  THEN NewHasher(tag)
  ELSE HasherUpdate(NewHasher(tag), content)

\* Crypto::sha1 / sha256 / sha512: the stored state when the constructor
\* returns.  content.to_string() is the text itself.
Construct(tag, content) ==
  IF content = NoContent
  THEN NewHasher(tag)
  ELSE update(NewHasher(tag), content)

Allocated(s) == algo[s].tag # "none"
FreeHandles == {h \in HandleIds : handles[h] = NoSession}
Least(S) == CHOOSE x \in S : \A y \in S : x <= y

\* A constructor call: a new shared state, among those of S, and one
\* handle to it.
New(tag, content, S) ==
  /\ {s \in S : ~Allocated(s)} # {}
  /\ FreeHandles # {}
  /\ content # NoContent => Len(content) <= MaxMsgLen
  /\ LET s == Least({x \in S : ~Allocated(x)})
         h == Least(FreeHandles)
     IN /\ algo' = [algo EXCEPT ![s] = Construct(tag, content)]
        /\ handles' = [handles EXCEPT ![h] = s]
        /\ pending' = [pending EXCEPT ![s] =
                         IF content = NoContent THEN <<>>
                         ELSE <<[h |-> h, c |-> content]>>]
        /\ seeded' = [seeded EXCEPT ![s] = content # NoContent]
  /\ UNCHANGED <<lockHolder, poisoned, pc, th, digested, lastDigest, lua>>

\* #[derive(Clone)] on Crypto: a second handle to the same Arc.
Clone(h) ==
  /\ handles[h] # NoSession
  /\ FreeHandles # {}
  /\ handles' = [handles EXCEPT ![Least(FreeHandles)] = handles[h]]
  /\ UNCHANGED <<algo, lockHolder, poisoned, pc, th, pending, digested, seeded,
                 lastDigest, lua>>

\* Crypto::update called on a handle while no other call is running.
Update(h, content) ==
  /\ handles[h] # NoSession
  /\ LET s == handles[h]
     IN /\ lockHolder[s] = NoThread /\ ~poisoned[s]
        /\ WithinBounds(s, content)
        /\ algo' = [algo EXCEPT ![s] = update(@, content)]
        /\ pending' = [pending EXCEPT ![s] = Append(@, [h |-> h, c |-> content])]
        /\ lastDigest' = [lastDigest EXCEPT ![s] = NoDigest]
        /\ seeded' = [seeded EXCEPT ![s] = FALSE]
  /\ UNCHANGED <<handles, lockHolder, poisoned, pc, th, digested, lua>>

\* digest with the hasher kept in one place shared by all the sessions: the
\* reset hasher of the digested session replaces the state of every
\* constructed session.
DigestSharedState(h, encoding) ==
  /\ handles[h] # NoSession
  /\ LET s == handles[h]
         d == digest(algo[s])
     IN /\ lockHolder[s] = NoThread /\ ~poisoned[s]
        /\ algo' = [x \in SessionIds |->
                      IF algo[x].tag # "none" THEN NewHasher(algo[s].tag)
                      ELSE algo[x]]
        /\ lastDigest' = [lastDigest EXCEPT ![s] =
                            [valid |-> TRUE, h |-> h, chunks |-> pending[s],
                             enc |-> encoding, out |-> Render(encoding, d.computed),
                             second |-> digested[s] /\ pending[s] = <<>>]]
        /\ pending' = [pending EXCEPT ![s] = <<>>]
        /\ digested' = [digested EXCEPT ![s] = TRUE]
        /\ seeded' = [seeded EXCEPT ![s] = FALSE]
  /\ UNCHANGED <<handles, lockHolder, poisoned, pc, th, lua>>

\* Crypto::digest called on a handle while no other call is running.
Digest(h, encoding) ==
  /\ handles[h] # NoSession
  /\ LET s == handles[h]
         d == digest(algo[s])
     IN /\ lockHolder[s] = NoThread /\ ~poisoned[s]
        /\ algo' = [algo EXCEPT ![s] = d.stored]
        /\ lastDigest' = [lastDigest EXCEPT ![s] =
                            [valid |-> TRUE, h |-> h, chunks |-> pending[s],
                             enc |-> encoding, out |-> Render(encoding, d.computed),
                             second |-> digested[s] /\ pending[s] = <<>>]]
        /\ pending' = [pending EXCEPT ![s] = <<>>]
        /\ digested' = [digested EXCEPT ![s] = TRUE]
        /\ seeded' = [seeded EXCEPT ![s] = FALSE]
  /\ UNCHANGED <<handles, lockHolder, poisoned, pc, th, lua>>

\* A thread calls update(content) on a handle.
UpdateCall(t, h, content) ==
  /\ pc[t] = "idle"
  /\ handles[h] # NoSession
  /\ WithinBounds(handles[h], content)
  /\ pc' = [pc EXCEPT ![t] = "u_lock"]
  /\ th' = [th EXCEPT ![t] = [NoLocals EXCEPT !.h = h, !.content = content]]
  /\ UNCHANGED <<algo, handles, lockHolder, poisoned, pending, digested, seeded,
                 lastDigest, lua>>

\* Line 126, self.algo.lock().unwrap(): the thread takes the mutex when it
\* is free; unwrap panics when the mutex is poisoned.
UpdateLock(t) ==
  /\ pc[t] = "u_lock"
  /\ LET s == handles[th[t].h]
     IN /\ lockHolder[s] = NoThread
        /\ IF poisoned[s]
           THEN /\ pc' = [pc EXCEPT ![t] = "panicked_lock"]
                /\ th' = [th EXCEPT ![t] = NoLocals]
                /\ UNCHANGED <<lockHolder, pending, lastDigest, seeded>>
           ELSE /\ lockHolder' = [lockHolder EXCEPT ![s] = t]
                /\ seeded' = [seeded EXCEPT ![s] = FALSE]
                /\ pc' = [pc EXCEPT ![t] = "u_held"]
                /\ pending' = [pending EXCEPT ![s] =
                                 Append(@, [h |-> th[t].h, c |-> th[t].content])]
                /\ lastDigest' = [lastDigest EXCEPT ![s] = NoDigest]
                /\ UNCHANGED th
  /\ UNCHANGED <<algo, handles, poisoned, digested, lua>>

\* Line 126, .get_hasher().box_clone(): the clone is taken under the lock,
\* and the guard, a temporary, is dropped at the end of the statement.
UpdateClone(t) ==
  /\ pc[t] = "u_held"
  /\ LET s == handles[th[t].h]
     IN /\ th' = [th EXCEPT ![t].binding = box_clone(get_hasher(algo[s]))]
        /\ lockHolder' = [lockHolder EXCEPT ![s] = NoThread]
  /\ pc' = [pc EXCEPT ![t] = "u_local"]
  /\ UNCHANGED <<algo, handles, poisoned, pending, digested, seeded, lastDigest,
                 lua>>

\* Lines 129-131: hasher.update(content) on the clone, and the return of
\* self; the clone is dropped.
UpdateHash(t) ==
  /\ pc[t] = "u_local"
  /\ LET s == handles[th[t].h]
         binding == HasherUpdate(th[t].binding, th[t].content)
     IN algo' = [algo EXCEPT ![s] = StoredAfterUpdate(@, binding, th[t].content)]
  /\ pc' = [pc EXCEPT ![t] = "idle"]
  /\ th' = [th EXCEPT ![t] = NoLocals]
  /\ UNCHANGED <<handles, lockHolder, poisoned, pending, digested, seeded,
                 lastDigest, lua>>

\* A digest method that converts its argument inside the critical section:
\* a panic of the conversion unwinds through the guard and poisons the lock.
DigestCallParsingUnderLock(t, h, sel) ==
  /\ pc[t] = "idle"
  /\ handles[h] # NoSession
  /\ LET parsed == from_lua(sel)
     IN CASE parsed.kind = "Ok" ->
               /\ pc' = [pc EXCEPT ![t] = "d_lock"]
               /\ th' = [th EXCEPT ![t] =
                           [NoLocals EXCEPT !.h = h, !.enc = parsed.enc]]
               /\ UNCHANGED poisoned
          [] parsed.kind = "Panic" ->
               /\ lockHolder[handles[h]] = NoThread
               /\ poisoned' = [poisoned EXCEPT ![handles[h]] = TRUE]
               /\ pc' = [pc EXCEPT ![t] = "panicked_parse"]
               /\ UNCHANGED th
          [] OTHER ->
               /\ UNCHANGED <<pc, th, poisoned>>
  /\ UNCHANGED <<algo, handles, lockHolder, pending, digested, seeded,
                 lastDigest, lua>>

\* The Lua method "digest": the argument is converted by from_lua before
\* Crypto::digest is entered.
DigestCall(t, h, sel) ==
  /\ pc[t] = "idle"
  /\ handles[h] # NoSession
  /\ LET parsed == from_lua(sel)
     IN CASE parsed.kind = "Ok" ->
               /\ pc' = [pc EXCEPT ![t] = "d_lock"]
               /\ th' = [th EXCEPT ![t] =
                           [NoLocals EXCEPT !.h = h, !.enc = parsed.enc]]
          [] parsed.kind = "Panic" ->
               /\ pc' = [pc EXCEPT ![t] = "panicked_parse"]
               /\ UNCHANGED th
          [] OTHER ->
               /\ UNCHANGED <<pc, th>>
  /\ UNCHANGED <<algo, handles, lockHolder, poisoned, pending, digested, seeded,
                 lastDigest, lua>>

\* Line 135, self.algo.lock().unwrap().
DigestLock(t) ==
  /\ pc[t] = "d_lock"
  /\ LET s == handles[th[t].h]
     IN /\ lockHolder[s] = NoThread
        /\ IF poisoned[s]
           THEN /\ pc' = [pc EXCEPT ![t] = "panicked_lock"]
                /\ th' = [th EXCEPT ![t] = NoLocals]
                /\ UNCHANGED <<lockHolder, pending, digested, seeded>>
           ELSE /\ lockHolder' = [lockHolder EXCEPT ![s] = t]
                /\ pc' = [pc EXCEPT ![t] = "d_held"]
                /\ th' = [th EXCEPT ![t].chunks = pending[s],
                                    ![t].second = digested[s] /\ pending[s] = <<>>]
                /\ pending' = [pending EXCEPT ![s] = <<>>]
                /\ digested' = [digested EXCEPT ![s] = TRUE]
                /\ seeded' = [seeded EXCEPT ![s] = FALSE]
  /\ UNCHANGED <<algo, handles, poisoned, lastDigest, lua>>

\* Lines 136-138: the digest of a box_clone of the stored hasher.
DigestCompute(t) ==
  /\ pc[t] = "d_held"
  /\ LET s == handles[th[t].h]
         fin == finalize_reset(box_clone(get_hasher(algo[s])))
     IN /\ th' = [th EXCEPT ![t].computed = fin.out]
        /\ algo' = [algo EXCEPT ![s] = StoredAfterDigest(@, fin.hasher)]
  /\ pc' = [pc EXCEPT ![t] = "d_computed"]
  /\ UNCHANGED <<handles, lockHolder, poisoned, pending, digested, seeded,
                 lastDigest, lua>>

\* A return from digest that leaves the lock held when the rendering gave
\* an error: an early return that skips the release.
DigestReturnErrHolding(t) ==
  /\ pc[t] = "d_computed"
  /\ LET s == handles[th[t].h]
         out == Render(th[t].enc, th[t].computed)
     IN /\ lastDigest' = [lastDigest EXCEPT ![s] =
                            [valid |-> TRUE, h |-> th[t].h, chunks |-> th[t].chunks,
                             enc |-> th[t].enc, out |-> out,
                             second |-> th[t].second]]
        /\ lockHolder' = [lockHolder EXCEPT ![s] =
                            IF out.kind = "Err" THEN @ ELSE NoThread]
  /\ pc' = [pc EXCEPT ![t] = "idle"]
  /\ th' = [th EXCEPT ![t] = NoLocals]
  /\ UNCHANGED <<algo, handles, poisoned, pending, digested, seeded, lua>>

\* Lines 140-145: the rendering, and the return, which drops the guard.
DigestReturn(t) ==
  /\ pc[t] = "d_computed"
  /\ LET s == handles[th[t].h]
     IN /\ lastDigest' = [lastDigest EXCEPT ![s] =
                            [valid |-> TRUE, h |-> th[t].h, chunks |-> th[t].chunks,
                             enc |-> th[t].enc,
                             out |-> Render(th[t].enc, th[t].computed),
                             second |-> th[t].second]]
        /\ lockHolder' = [lockHolder EXCEPT ![s] = NoThread]
  /\ pc' = [pc EXCEPT ![t] = "idle"]
  /\ th' = [th EXCEPT ![t] = NoLocals]
  /\ UNCHANGED <<algo, handles, poisoned, pending, digested, seeded, lua>>

\* A thread panics while it holds the mutex (its MutexGuard is dropped
\* during unwinding): std::sync::Mutex marks the mutex poisoned and frees it.
PanicHoldingLock(t) ==
  /\ pc[t] \in {"u_held", "d_held", "d_computed"}
  /\ LET s == handles[th[t].h]
     IN /\ poisoned' = [poisoned EXCEPT ![s] = TRUE]
        /\ lockHolder' = [lockHolder EXCEPT ![s] = NoThread]
  /\ pc' = [pc EXCEPT ![t] = "panicked_holding"]
  /\ th' = [th EXCEPT ![t] = NoLocals]
  /\ UNCHANGED <<algo, handles, pending, digested, seeded, lastDigest, lua>>

\* The Lua method "digest" on one thread, as a function of the selector and
\* of the raw digest: from_lua, then the match on the encoding.
LuaDigest(sel, raw) ==
  LET parsed == from_lua(sel)
  IN [sel |-> sel, raw |-> raw, parsed |-> parsed,
      out |-> IF parsed.kind = "Ok" THEN Render(parsed.enc, raw)
              ELSE [kind |-> "none", text |-> <<>>]]

\* The raw digests Crypto::digest computes on a session as its constructor
\* leaves it.
FreshDigests ==
  {digest(Construct(tag, content)).computed :
     tag \in CryptoAlgoVariants, content \in Chunks \cup {NoContent}}

\* The inputs of one call of the Lua method "digest".
InitLua ==
  /\ InitSessions
  /\ lua \in {[NoLua EXCEPT !.sel = sel, !.raw = raw] :
               sel \in Selectors, raw \in RawInputs \cup FreshDigests}

\* The call of the method on the inputs drawn by InitLua.
LuaCall ==
  /\ lua.parsed.kind = "none"
  /\ lua' = LuaDigest(lua.sel, lua.raw)
  /\ UNCHANGED sessionVars

\* Calls made one after the other, on two sessions.
Next ==
  \/ \E tag \in CryptoAlgoVariants, content \in Chunks \cup {NoContent} :
       New(tag, content, SessionIds)
  \/ \E h \in HandleIds : Clone(h)
  \/ \E h \in HandleIds, content \in Chunks : Update(h, content)
  \/ \E h \in HandleIds, encoding \in EncodingKinds : Digest(h, encoding)

Spec == Init /\ [][Next]_vars

\* Calls made by two threads on the handles of one session.
NextThreads ==
  \/ \E tag \in CryptoAlgoVariants, content \in ThreadChunks \cup {NoContent} :
       New(tag, content, {1})
  \/ \E h \in HandleIds : Clone(h)
  \/ \E t \in Threads, h \in HandleIds, content \in ThreadChunks :
       UpdateCall(t, h, content)
  \/ \E t \in Threads : UpdateLock(t)
  \/ \E t \in Threads : UpdateClone(t)
  \/ \E t \in Threads : UpdateHash(t)
  \/ \E t \in Threads, h \in HandleIds, sel \in SessionSelectors :
       DigestCall(t, h, sel)
  \/ \E t \in Threads : DigestLock(t)
  \/ \E t \in Threads : DigestCompute(t)
  \/ \E t \in Threads : DigestReturn(t)

SpecThreads == Init /\ [][NextThreads]_vars

\* The same, with a thread that may panic inside a critical section.
NextFault == NextThreads \/ \E t \in Threads : PanicHoldingLock(t)

SpecFault == Init /\ [][NextFault]_vars

\* The Lua method "digest" as a function of its inputs.
NextLua == LuaCall

SpecLua == InitLua /\ [][NextLua]_vars

---------------------------------------------------------------------------
(* Properties of the sessions *)

\* The digest of the concatenation of the chunks, rendered: what a digest
\* call that consumed `chunks` returns when every update was absorbed.
Expected(tag, chunks, enc) == Render(enc, Hash(tag, Flatten(ChunksOf(chunks))))

\* C1: a digest renders the hash of the concatenation of the chunks of the
\* updates issued on the session since its construction or its previous
\* digest.
C1_UpdateAppends ==
  \A s \in SessionIds :
    lastDigest[s].valid =>
      lastDigest[s].out =
        Expected(algo[s].tag, lastDigest[s].chunks, lastDigest[s].enc)

\* C2: two digests of sessions of the same algorithm, in the same encoding,
\* over updates whose chunks concatenate to the same bytes, return the same
\* result, however the bytes were split into chunks.
C2_Chaining ==
  \A s1, s2 \in SessionIds :
    ( /\ lastDigest[s1].valid /\ lastDigest[s2].valid
      /\ algo[s1].tag = algo[s2].tag
      /\ lastDigest[s1].enc = lastDigest[s2].enc
      /\ Flatten(ChunksOf(lastDigest[s1].chunks))
           = Flatten(ChunksOf(lastDigest[s2].chunks)) )
    => lastDigest[s1].out = lastDigest[s2].out

\* One session digested update(x).update(y), another update(x ++ y), with x
\* and y not empty, in the same encoding with a text result.
C2_Witness ==
  \E s1, s2 \in SessionIds :
    /\ lastDigest[s1].valid /\ lastDigest[s2].valid
    /\ algo[s1].tag = algo[s2].tag
    /\ lastDigest[s1].enc = lastDigest[s2].enc
    /\ lastDigest[s1].out.kind = "Ok"
    /\ Len(lastDigest[s1].chunks) = 2 /\ Len(lastDigest[s2].chunks) = 1
    /\ lastDigest[s1].chunks[1].c # <<>> /\ lastDigest[s1].chunks[2].c # <<>>
    /\ lastDigest[s2].chunks[1].c
         = lastDigest[s1].chunks[1].c \o lastDigest[s1].chunks[2].c

\* Session s is as its constructor left it, built with content d.
JustSeeded(s, d) == seeded[s] /\ pending[s][1].c = d

\* Session s was built without content and has run update(d) and nothing
\* else.
JustUpdated(s, d) ==
  /\ Allocated(s) /\ ~seeded[s] /\ ~digested[s]
  /\ Len(pending[s]) = 1 /\ pending[s][1].c = d
  /\ lockHolder[s] = NoThread

\* C3: a session built with content d and a session of the same algorithm
\* built without content and then updated with d hold the same stored
\* state.
C3_SeededEquivalent ==
  \A s1, s2 \in SessionIds : \A d \in Chunks :
    (JustSeeded(s1, d) /\ JustUpdated(s2, d) /\ algo[s1].tag = algo[s2].tag)
      => algo[s1] = algo[s2]

C3_Witness ==
  \E s1, s2 \in SessionIds : \E d \in Chunks :
    /\ d # <<>>
    /\ JustSeeded(s1, d) /\ JustUpdated(s2, d)
    /\ algo[s1].tag = algo[s2].tag

\* C4: a digest that follows another digest of the same session, with no
\* update in between through any handle, returns the rendering of the
\* digest of the empty message.
C4_ResetOnDigest ==
  \A s \in SessionIds :
    (lastDigest[s].valid /\ lastDigest[s].second) =>
      lastDigest[s].out = Render(lastDigest[s].enc, Hash(algo[s].tag, <<>>))

\* A second digest in a row has returned a text.
C4_Witness ==
  \E s \in SessionIds :
    /\ lastDigest[s].valid /\ lastDigest[s].second
    /\ lastDigest[s].out.kind = "Ok"

\* C5: an update issued through one handle of a session is covered by the
\* next digest called through another handle of the session.
C5_AliasedUpdateVisible ==
  \A s \in SessionIds :
    ( /\ lastDigest[s].valid
      /\ \E i \in 1..Len(lastDigest[s].chunks) :
           lastDigest[s].chunks[i].h # lastDigest[s].h )
    => lastDigest[s].out =
         Expected(algo[s].tag, lastDigest[s].chunks, lastDigest[s].enc)

---------------------------------------------------------------------------
(* Properties of the selector parsing and of the rendering *)

\* The text equals the name when upper and lower case are not told apart.
EqualIgnoreCase(s, name) ==
  /\ Len(s) = Len(name)
  /\ \A i \in 1..Len(s) :
       \/ s[i] = name[i]
       \/ s[i] >= 65 /\ s[i] <= 90 /\ s[i] + 32 = name[i]

\* An integer ordinal outside 0, 1, 2, or a name that is none of utf8,
\* base64, hex.
InvalidSelector(sel) ==
  \/ sel.type = "Integer" /\ sel.n \notin {0, 1, 2}
  \/ sel.type = "String"
       /\ \A name \in {StrUtf8, StrBase64, StrHex} : ~EqualIgnoreCase(sel.s, name)

\* C6: an invalid integer ordinal or name is rejected with an error value
\* returned to the caller: the parsing does not panic, yields no
\* EncodingKind, and the call returns no digest.
C6_InvalidSelectorRejected ==
  (lua.parsed.kind # "none" /\ InvalidSelector(lua.sel)) =>
    (lua.parsed.kind = "Err" /\ lua.out.kind = "none")

\* The bytes that encode the Unicode code point cp in UTF-8.
Utf8Encode(cp) ==
  IF cp < 128 THEN <<cp>>
  ELSE IF cp < 2048 THEN <<192 + (cp \div 64), 128 + (cp % 64)>>
  ELSE IF cp < 65536 THEN
    <<224 + (cp \div 4096), 128 + ((cp \div 64) % 64), 128 + (cp % 64)>>
  ELSE <<240 + (cp \div 262144), 128 + ((cp \div 4096) % 64),
         128 + ((cp \div 64) % 64), 128 + (cp % 64)>>

\* The code point whose bits one to four bytes carry.
Utf8Payload(b) ==
  CASE Len(b) = 1 -> b[1]
    [] Len(b) = 2 -> (b[1] % 32) * 64 + (b[2] % 64)
    [] Len(b) = 3 -> (b[1] % 16) * 4096 + (b[2] % 64) * 64 + (b[3] % 64)
    [] Len(b) = 4 ->
         (b[1] % 8) * 262144 + (b[2] % 64) * 4096 + (b[3] % 64) * 64 + (b[4] % 64)

\* The bytes are the UTF-8 encoding of one Unicode scalar value.
EncodesScalar(b) ==
  LET cp == Utf8Payload(b)
  IN /\ cp <= 1114111
     /\ ~(cp >= 55296 /\ cp <= 57343)
     /\ Utf8Encode(cp) = b

RECURSIVE IsUtf8Text(_)
\* The bytes are the encodings of a sequence of Unicode scalar values.
IsUtf8Text(bytes) ==
  \/ bytes = <<>>
  \/ \E k \in 1..4 :
       /\ k <= Len(bytes)
       /\ EncodesScalar(SubSeq(bytes, 1, k))
       /\ IsUtf8Text(SubSeq(bytes, k + 1, Len(bytes)))

\* The raw digest of a SHA-256 session built without content.
FreshSha256 == digest(Construct("Sha256", NoContent)).computed

\* C7: digest(Utf8) returns the raw digest as text exactly when its bytes
\* are valid UTF-8 and an error value otherwise, never a panic and never
\* another rendering; on a fresh SHA-256 session it returns the error.
C7_Utf8Digest ==
  lua.parsed = ParseOk("Utf8") =>
    /\ lua.out.kind \in {"Ok", "Err"}
    /\ lua.out.kind = "Ok" <=> IsUtf8Text(lua.raw)
    /\ lua.out.kind = "Ok" => lua.out.text = lua.raw
    /\ lua.raw = FreshSha256 => lua.out.kind = "Err"

\* digest(Utf8) was called on the digest of a fresh SHA-256 session and
\* returned the error.
C7_Witness ==
  /\ lua.parsed = ParseOk("Utf8")
  /\ lua.raw = FreshSha256
  /\ lua.out.kind = "Err"

---------------------------------------------------------------------------
(* Properties of the sessions under concurrent callers *)

\* C8: after a thread has panicked while it held the lock of a session, no
\* later update or digest on the session panics at the lock.
C8_LockFailureRecoverable ==
  \A t \in Threads : pc[t] # "panicked_lock"

\* C9: the raw digest a digest call computes is the hash of the
\* concatenation, in lock order, of the chunks of the updates that took the
\* lock after the previous digest and before this one.
C9_Linearizable ==
  \A t \in Threads :
    pc[t] = "d_computed" =>
      th[t].computed =
        Hash(algo[handles[th[t].h]].tag, Flatten(ChunksOf(th[t].chunks)))

\* The standard output size, in bytes, of each algorithm.
StandardSize(tag) ==
  CASE tag = "Sha1" -> 20
    [] tag = "Sha256" -> 32
    [] tag = "Sha512" -> 64
    [] tag = "Md5" -> 16

\* C10: sessions can be constructed for exactly SHA-1, SHA-256, SHA-512 and
\* MD5, and the raw digest of a session has the standard length of its
\* algorithm.
C10_FourAlgorithms ==
  /\ CryptoAlgoVariants = {"Sha1", "Sha256", "Sha512", "Md5"}
  /\ \A s \in SessionIds :
       Allocated(s) =>
         Len(digest(algo[s]).computed) = StandardSize(algo[s].tag)

---------------------------------------------------------------------------
(* Properties of the valid selectors and of the renderings *)

\* The name of an encoding, in lower case.
NameOf(enc) ==
  CASE enc = "Utf8" -> StrUtf8
    [] enc = "Base64" -> StrBase64
    [] enc = "Hex" -> StrHex

\* The encoding of an integer ordinal.
OrdinalEncoding(n) ==
  CASE n = 0 -> "Utf8"
    [] n = 1 -> "Base64"
    [] n = 2 -> "Hex"

\* C11: the integer ordinals 0, 1, 2 parse to Utf8, Base64, Hex, and a name
\* parses to an encoding exactly when it equals the name of that encoding
\* with upper and lower case not told apart.
C11_ValidSelectorsParse ==
  lua.parsed.kind # "none" =>
    /\ (lua.sel.type = "Integer" /\ lua.sel.n \in {0, 1, 2}) =>
         lua.parsed = ParseOk(OrdinalEncoding(lua.sel.n))
    /\ lua.sel.type = "String" =>
         \A enc \in EncodingKinds :
           lua.parsed = ParseOk(enc) <=> EqualIgnoreCase(lua.sel.s, NameOf(enc))

\* The name "Hex", in mixed case, was parsed to the Hex encoding.
C11_Witness ==
  /\ lua.sel = LuaString(<<72, 101, 120>>)
  /\ lua.parsed = ParseOk("Hex")

\* The value of a lowercase hexadecimal digit, -1 for any other character.
HexValue(c) ==
  IF c >= 48 /\ c <= 57 THEN c - 48
  ELSE IF c >= 97 /\ c <= 102 THEN c - 87
  ELSE 0 - 1

\* The text is an even number of lowercase hexadecimal digits.
IsLowerHex(text) ==
  /\ Len(text) % 2 = 0
  /\ \A i \in 1..Len(text) : HexValue(text[i]) >= 0

\* The bytes a hexadecimal text stands for.
HexDecode(text) ==
  [k \in 1..(Len(text) \div 2) |->
     16 * HexValue(text[2 * k - 1]) + HexValue(text[2 * k])]

\* The value of a character of the standard base64 alphabet (RFC 4648,
\* section 4), -1 for any other character.
B64Value(c) ==
  IF c >= 65 /\ c <= 90 THEN c - 65
  ELSE IF c >= 97 /\ c <= 122 THEN c - 71
  ELSE IF c >= 48 /\ c <= 57 THEN c + 4
  ELSE IF c = 43 THEN 62
  ELSE IF c = 47 THEN 63
  ELSE 0 - 1

\* The number of '=' characters that end the text, at most two.
B64Padding(text) ==
  LET n == Len(text)
  IN IF n >= 2 /\ text[n] = 61 /\ text[n - 1] = 61 THEN 2
     ELSE IF n >= 1 /\ text[n] = 61 THEN 1
     ELSE 0

\* The text is padded standard base64: groups of four characters of the
\* alphabet, with '=' only as the last one or two characters.
IsPaddedBase64(text) ==
  /\ Len(text) % 4 = 0
  /\ \A i \in 1..(Len(text) - B64Padding(text)) : B64Value(text[i]) >= 0

\* The bytes a padded base64 text stands for.
Base64Decode(text) ==
  [k \in 1..(3 * (Len(text) \div 4) - B64Padding(text)) |->
     LET g == 4 * ((k - 1) \div 3)
         r == (k - 1) % 3
         v1 == B64Value(text[g + 1])
         v2 == B64Value(text[g + 2])
         v3 == B64Value(text[g + 3])
         v4 == B64Value(text[g + 4])
     IN CASE r = 0 -> v1 * 4 + (v2 \div 16)
          [] r = 1 -> (v2 % 16) * 16 + (v3 \div 4)
          [] r = 2 -> (v3 % 4) * 64 + v4]

\* C12: the Hex result is lowercase hexadecimal, the Base64 result is
\* padded standard base64, and decoding either gives back the raw digest,
\* so the two decodings of one raw digest agree.
C12_CrossEncoding ==
  /\ lua.parsed = ParseOk("Hex") =>
       /\ lua.out.kind = "Ok"
       /\ IsLowerHex(lua.out.text)
       /\ HexDecode(lua.out.text) = lua.raw
  /\ lua.parsed = ParseOk("Base64") =>
       /\ lua.out.kind = "Ok"
       /\ IsPaddedBase64(lua.out.text)
       /\ Base64Decode(lua.out.text) = lua.raw
  /\ lua.parsed.kind = "Ok" =>
       HexDecode(Render("Hex", lua.raw).text)
         = Base64Decode(Render("Base64", lua.raw).text)

\* The SHA-1 digest of a fresh session, twenty bytes, was rendered in
\* Base64, with one '=' of padding.
C12_Witness ==
  /\ lua.parsed = ParseOk("Base64")
  /\ lua.raw = digest(Construct("Sha1", NoContent)).computed
  /\ lua.out.kind = "Ok"
  /\ B64Padding(lua.out.text) = 1

\* The FIPS 180 SHA-1 test vector for the empty message, as text:
\* da39a3ee5e6b4b0d3255bfef95601890afd80709
EmptyVectorSha1 ==
  <<100, 97, 51, 57, 97, 51, 101, 101, 53, 101, 54, 98, 52, 98, 48, 100,
    51, 50, 53, 53, 98, 102, 101, 102, 57, 53, 54, 48, 49, 56, 57, 48, 97,
    102, 100, 56, 48, 55, 48, 57>>

\* The FIPS 180 SHA-256 test vector for the empty message, as text:
\* e3b0c44298fc1c149afbf4c8996fb92427ae41e4649b934ca495991b7852b855
EmptyVectorSha256 ==
  <<101, 51, 98, 48, 99, 52, 52, 50, 57, 56, 102, 99, 49, 99, 49, 52, 57,
    97, 102, 98, 102, 52, 99, 56, 57, 57, 54, 102, 98, 57, 50, 52, 50, 55,
    97, 101, 52, 49, 101, 52, 54, 52, 57, 98, 57, 51, 52, 99, 97, 52, 57,
    53, 57, 57, 49, 98, 55, 56, 53, 50, 98, 56, 53, 53>>

\* The FIPS 180 SHA-512 test vector for the empty message, as text:
\* cf83e1357eefb8bdf1542850d66d8007d620e4050b5715dc83f4a921d36ce9ce
\* 47d0d13c5d85f2b0ff8318d2877eec2f63b931bd47417a81a538327af927da3e
EmptyVectorSha512 ==
  <<99, 102, 56, 51, 101, 49, 51, 53, 55, 101, 101, 102, 98, 56, 98, 100,
    102, 49, 53, 52, 50, 56, 53, 48, 100, 54, 54, 100, 56, 48, 48, 55, 100,
    54, 50, 48, 101, 52, 48, 53, 48, 98, 53, 55, 49, 53, 100, 99, 56, 51,
    102, 52, 97, 57, 50, 49, 100, 51, 54, 99, 101, 57, 99, 101, 52, 55,
    100, 48, 100, 49, 51, 99, 53, 100, 56, 53, 102, 50, 98, 48, 102, 102,
    56, 51, 49, 56, 100, 50, 56, 55, 55, 101, 101, 99, 50, 102, 54, 51, 98,
    57, 51, 49, 98, 100, 52, 55, 52, 49, 55, 97, 56, 49, 97, 53, 51, 56,
    51, 50, 55, 97, 102, 57, 50, 55, 100, 97, 51, 101>>

\* The published hexadecimal digest of the empty message.
EmptyVector(tag) ==
  CASE tag = "Sha1" -> EmptyVectorSha1
    [] tag = "Sha256" -> EmptyVectorSha256
    [] tag = "Sha512" -> EmptyVectorSha512

\* The last digest of the session was its first call: the session was
\* built without content and no update came before the digest.
DigestOfFresh(s) ==
  /\ lastDigest[s].valid
  /\ lastDigest[s].chunks = <<>>
  /\ ~lastDigest[s].second

\* C13: digest(Hex) on a session built without content and never updated
\* returns the published hexadecimal digest of the empty message of the
\* session's algorithm.
C13_EmptyMessageVector ==
  \A s \in SessionIds :
    (DigestOfFresh(s) /\ lastDigest[s].enc = "Hex") =>
      lastDigest[s].out = [kind |-> "Ok", text |-> EmptyVector(algo[s].tag)]

\* A fresh SHA-512 session and a fresh SHA-1 session were both digested in
\* Hex.
C13_Witness ==
  \E s1, s2 \in SessionIds :
    /\ DigestOfFresh(s1) /\ lastDigest[s1].enc = "Hex" /\ algo[s1].tag = "Sha512"
    /\ DigestOfFresh(s2) /\ lastDigest[s2].enc = "Hex" /\ algo[s2].tag = "Sha1"

---------------------------------------------------------------------------
(* Properties of the stored state of the sessions *)

\* C14: no step changes the variant of a constructed session: after any
\* update, digest or clone, on any handle, the tag of the shared CryptoAlgo
\* is the one its constructor chose.
C14_VariantFixed ==
  [][\A s \in SessionIds : Allocated(s) => algo'[s].tag = algo[s].tag]_vars

\* A SHA-256 session with two handles has been digested and then updated.
C14_Witness ==
  \E s \in SessionIds :
    /\ algo[s].tag = "Sha256"
    /\ Cardinality({h \in HandleIds : handles[h] = s}) = 2
    /\ digested[s]
    /\ pending[s] # <<>>

\* The state of one session: the stored hasher, its lock, and the record
\* of the calls made on it.
SessionState(s) ==
  <<algo[s], lockHolder[s], poisoned[s], pending[s], digested[s], seeded[s],
    lastDigest[s]>>

\* The state of a session in the next state of a step.
SessionStateNext(s) ==
  <<algo'[s], lockHolder'[s], poisoned'[s], pending'[s], digested'[s],
    seeded'[s], lastDigest'[s]>>

\* C15: a step that acts on one session (a constructor, an update or a
\* digest) leaves the state of every other session unchanged, and the
\* result of a digest is computed from the stored state of its own session
\* alone, also when the sessions have the same algorithm.
C15_SessionsIndependent ==
  [][\A s1, s2 \in SessionIds :
       (s1 # s2 /\ SessionStateNext(s1) # SessionState(s1)) =>
         /\ SessionStateNext(s2) = SessionState(s2)
         /\ lastDigest'[s1].valid =>
              lastDigest'[s1].out =
                Render(lastDigest'[s1].enc, digest(algo[s1]).computed)]_vars

\* Two sessions of the same algorithm: one digested two updates, the other
\* was digested and then updated.
C15_Witness ==
  \E s1, s2 \in SessionIds :
    /\ s1 # s2
    /\ algo[s1].tag = algo[s2].tag /\ Allocated(s1)
    /\ lastDigest[s1].valid /\ Len(lastDigest[s1].chunks) = 2
    /\ digested[s2] /\ pending[s2] # <<>>

\* The raw digest of a fresh session of the algorithm that ran only
\* update(y).
FreshAfterUpdate(tag, y) ==
  digest(update(Construct(tag, NoContent), y)).computed

\* C16: a digest that follows an earlier digest and one update(y) returns
\* what a fresh session of the same algorithm returns after update(y)
\* alone, in the same encoding: nothing absorbed before the earlier digest
\* is carried over.
C16_NoCarryOver ==
  [][\A s \in SessionIds :
       ( /\ digested[s] /\ Len(pending[s]) = 1
         /\ pending'[s] = <<>> /\ lastDigest'[s].valid )
       => lastDigest'[s].out =
            Render(lastDigest'[s].enc,
                   FreshAfterUpdate(algo[s].tag, pending[s][1].c))]_vars

\* A session has been digested and then updated once: the state in which
\* the second digest of the claim is called.
C16_Witness ==
  \E s \in SessionIds :
    /\ Allocated(s)
    /\ digested[s] /\ Len(pending[s]) = 1
    /\ lastDigest[s] = NoDigest
    /\ lockHolder[s] = NoThread

---------------------------------------------------------------------------
(* Properties of the numeric selectors *)

\* The truncation toward zero of the float h / 2.
Truncated(h) == IF h >= 0 THEN h \div 2 ELSE 0 - ((0 - h) \div 2)

\* C17: a finite float selector parses to Utf8, Base64 or Hex when its
\* truncation toward zero is 0, 1 or 2, and to no encoding otherwise: a
\* number at or below -1 is never taken for Utf8.
C17_FloatTruncated ==
  (lua.parsed.kind # "none" /\ lua.sel.type = "Number" /\ lua.sel.fp = "finite") =>
    IF Truncated(lua.sel.n) \in {0, 1, 2}
    THEN lua.parsed = ParseOk(OrdinalEncoding(Truncated(lua.sel.n)))
    ELSE lua.parsed.kind # "Ok"

---------------------------------------------------------------------------
(* Properties of the critical sections *)

\* C18: update and digest are one critical section each: the thread that
\* is about to append the content of an update, or that computes or
\* renders a digest, holds the lock of the session, and a thread that is
\* in no call holds no lock.
C18_CriticalSections ==
  \A t \in Threads :
    /\ pc[t] \in {"u_held", "u_local", "d_held", "d_computed"} =>
         lockHolder[handles[th[t].h]] = t
    /\ pc[t] = "idle" => \A s \in SessionIds : lockHolder[s] # t

\* C19: what a digest call does to the stored state and to the lock of its
\* session is the same for every encoding, and the same whether the
\* rendering succeeds or returns an error: the computation leaves what
\* `digest` leaves from the stored state alone, and the return leaves the
\* stored state as it is and the lock free and not poisoned.
C19_EffectIgnoresEncoding ==
  [][\A t \in Threads :
       LET s == handles[th[t].h]
       IN /\ (pc[t] = "d_held" /\ pc'[t] = "d_computed") =>
               /\ algo'[s] = digest(algo[s]).stored
               /\ lockHolder'[s] = t
               /\ poisoned'[s] = poisoned[s]
          /\ (pc[t] = "d_computed" /\ pc'[t] = "idle") =>
               /\ algo'[s] = algo[s]
               /\ lockHolder'[s] = NoThread
               /\ poisoned'[s] = poisoned[s]]_vars

\* A digest in Utf8 has returned an error, and a thread is about to call
\* digest in another encoding on the same session.
C19_Witness ==
  \E s \in SessionIds, t \in Threads :
    /\ lastDigest[s].valid
    /\ lastDigest[s].enc = "Utf8" /\ lastDigest[s].out.kind = "Err"
    /\ lockHolder[s] = NoThread
    /\ pc[t] = "d_lock" /\ th[t].enc = "Hex" /\ handles[th[t].h] = s

\* C20: in runs made of constructor, clone, update and digest calls and of
\* selector parsing, no lock is ever poisoned and no call panics at
\* lock().unwrap(); a thread whose selector parsing panicked holds no lock.
C20_NeverPoisoned ==
  /\ \A s \in SessionIds : ~poisoned[s]
  /\ \A t \in Threads :
       /\ pc[t] \notin {"panicked_lock", "panicked_holding"}
       /\ pc[t] = "panicked_parse" => \A s \in SessionIds : lockHolder[s] # t

\* The selector parsing of one thread has panicked, and the other thread
\* has since taken the lock of the session in a digest that follows an
\* earlier digest.
C20_Witness ==
  \E t1, t2 \in Threads :
    /\ pc[t1] = "panicked_parse"
    /\ pc[t2] = "d_computed"
    /\ lockHolder[handles[th[t2].h]] = t2
    /\ lastDigest[handles[th[t2].h]].valid

===========================================================================
